---- MODULE Spec2Model ----
(***************************************************************************)
(* Model of the weather monitoring engine of weather_monitor.py: the       *)
(* polling loop WeatherMonitor.run, the per-city consecutive-breach        *)
(* counter, the daily summary with its dominant-weather tie-break, the     *)
(* two SQLite tables of WeatherDB and the e-mail alert.                    *)
(*                                                                         *)
(* Units.  Temperatures are fixed-point integers in hundredths of a        *)
(* degree (308.15 K is 30815, 35.0 C is 3500); the payload values are      *)
(* chosen so that both conversions are exact.  Time stamps are epoch       *)
(* seconds as in the code.  A date string 'YYYY-MM-DD' is represented by   *)
(* its day number since the epoch (the formatting is injective).  In these *)
(* units the average of a summary is the exact fraction <<sum, count>>.    *)
(* SpecStats alone represents the temperatures as the binary64 values the  *)
(* program holds, with the rounding of every addition and division.        *)
(*                                                                         *)
(* Spec is the run loop as main() starts it; SpecAlert is the same loop    *)
(* with a complete e-mail configuration; SpecApp is the loop in the daemon *)
(* thread of app.py together with the Flask handlers.  SpecThreshold,      *)
(* SpecEmail, SpecAgg and SpecStats apply check_temperature_threshold,     *)
(* trigger_alert and calculate_daily_summary directly, as the unit tests   *)
(* do, to every input within the bounds.                                   *)
(***************************************************************************)
EXTENDS Integers, Sequences, FiniteSets, TLC

(* ------------------------------ bounds -------------------------------- *)
\* number of configured cities (a prefix of the default list)
NumCities == 2
\* number of cycles of the run loop that are explored
MaxCycles == 2
\* number of direct calls explored in the call-level specifications
MaxCalls == 4
\* largest consecutive_threshold_breaches explored at call level
MaxRequired == 3
\* largest number of rows of weather_data in the aggregation specification
MaxRows == 4
\* number of direct calls of calculate_daily_summary explored
MaxSummaries == 2
\* number of requests to the Flask application explored
MaxRequests == 2

(* ------------------------- program constants -------------------------- *)
SecondsPerMinute == 60
SecondsPerHour == 3600
SecondsPerDay == 86400
KelvinOffset == 27315
FahrenheitOffset == 3200
DefaultThreshold == 3500
DefaultRequired == 2
DefaultInterval == 5
DefaultSmtpPort == 587
EndOfDayHour == 23
EndOfDayMinute == 55

AllCities == <<"Delhi", "Mumbai", "Chennai", "Bangalore", "Kolkata", "Hyderabad">>

Min2(a, b) == IF a < b THEN a ELSE b

cities == SubSeq(AllCities, 1, Min2(NumCities, Len(AllCities)))

CitySet == {cities[i] : i \in 1..Len(cities)}

None == [kind |-> "None"]

VARIABLES
  config,               \* Config: immutable after construction
  utc_offset,           \* seconds the process's local time zone is ahead of UTC
  clock,                \* wall clock, epoch seconds
  weather_data,         \* table weather_data, in rowid order
  daily_summaries,      \* table daily_summaries, in rowid order
  consecutive_breaches, \* WeatherMonitor.consecutive_breaches
  pc,                   \* position of the run loop ("api": no loop, direct calls)
  idx,                  \* index in config.cities of the city being processed
  data,                 \* the value fetch_weather_data returned for that city
  obs,                  \* locals of process_weather_data (temp, feels_like, main, dt)
  cycle,                \* number of the current cycle of the run loop
  alerts,               \* calls of trigger_alert so far
  emails,               \* SMTP log: attempts and successful sends
  error,                \* the exception that left run(), or "none"
  log,                  \* per-cycle record of what was done for each city
  calls,                \* number of direct calls made (call-level specifications)
  readings,             \* per city, the temperatures passed to check_temperature_threshold
  last,                 \* the last operation performed and its arguments
  dashboard             \* the requests the Flask handlers of app.py have served

vars == <<config, utc_offset, clock, weather_data, daily_summaries,
          consecutive_breaches, pc, idx, data, obs, cycle, alerts, emails,
          error, log, calls, readings, last, dashboard>>

(* --------------------------- configuration ---------------------------- *)
\* Config.__post_init__: the default e-mail settings have three empty fields
DefaultEmailConfig ==
  [smtp_server |-> "smtp.gmail.com", smtp_port |-> DefaultSmtpPort,
   sender_email |-> "", sender_password |-> "", recipient_email |-> ""]

CompleteEmailConfig ==
  [smtp_server |-> "smtp.gmail.com", smtp_port |-> DefaultSmtpPort,
   sender_email |-> "ops@example.org", sender_password |-> "secret",
   recipient_email |-> "oncall@example.org"]

Config(interval, unit, required, email) ==
  [interval_minutes |-> interval, temperature_unit |-> unit,
   temp_threshold |-> DefaultThreshold,
   consecutive_threshold_breaches |-> required, email_config |-> email]

(* ------------------------- temperature units -------------------------- *)
kelvin_to_celsius(kelvin) == kelvin - KelvinOffset

kelvin_to_fahrenheit(kelvin) == ((kelvin - KelvinOffset) * 9) \div 5 + FahrenheitOffset

convert_temperature(kelvin) ==
  IF config.temperature_unit = "celsius"
  THEN kelvin_to_celsius(kelvin)
  ELSE kelvin_to_fahrenheit(kelvin)

(* ------------------------------ alerts -------------------------------- *)
\* the keys send_email_alert reads from email_config
EmailFields ==
  {"smtp_server", "smtp_port", "sender_email", "sender_password", "recipient_email"}

\* bool(value) is False: '' for the four strings, 0 for the port
Falsy(key, value) == IF key = "smtp_port" THEN value = 0 ELSE value = ""

\* all(self.config.email_config.values()): every value of the dict is truthy
\* (a key the dict does not have contributes no value)
EmailConfigComplete ==
  \A key \in DOMAIN config.email_config : ~Falsy(key, config.email_config[key])

\* send_email_alert: skipped when the configuration is incomplete.  Otherwise
\* the try block: the headers and the arguments of smtplib.SMTP are read from
\* the dict (a KeyError ends the block before any connection), the session is
\* opened (one attempt), and login reads sender_password; whatever is raised
\* is logged and swallowed
send_email_alert(smtp_ok) ==
  IF ~EmailConfigComplete
  THEN emails
  ELSE IF ~({"sender_email", "recipient_email", "smtp_server", "smtp_port"}
              \subseteq DOMAIN config.email_config)
  THEN emails
  ELSE [attempts |-> emails.attempts + 1,
        sent |-> emails.sent +
                 (IF smtp_ok /\ "sender_password" \in DOMAIN config.email_config
                  THEN 1 ELSE 0)]

\* variant of send_email_alert_error: the session is not inside a try block, a
\* failure of the SMTP session leaves send_email_alert
send_email_alert_errorMutUncaught(smtp_ok) ==
  IF EmailConfigComplete /\ ~smtp_ok THEN "SMTPException" ELSE "none"

\* the exception that leaves send_email_alert: `except Exception` (line 223)
\* catches whatever building the message or the SMTP session raises
send_email_alert_error(smtp_ok) == "none"

\* trigger_alert: logs the warning, then sends the e-mail
trigger_alert(city, temp, smtp_ok) ==
  /\ alerts' = Append(alerts, [city |-> city, temp |-> temp,
                               count |-> consecutive_breaches'[city]])
  /\ emails' = send_email_alert(smtp_ok)

\* variant of IsBreach: a reading equal to the threshold counts as a breach
IsBreachMutGe(temp) == temp >= config.temp_threshold

\* the comparison of check_temperature_threshold
IsBreach(temp) == temp > config.temp_threshold

\* variant of AlertDue: the alert fires only when the count is first reached
AlertDueMutOnce(count) == count = config.consecutive_threshold_breaches

\* the comparison that guards trigger_alert
AlertDue(count) == count >= config.consecutive_threshold_breaches

\* variant of check_temperature_threshold: a reading that is no breach takes
\* one off the count instead of clearing it
check_temperature_thresholdMutDecrement(city, temp, smtp_ok) ==
  IF IsBreach(temp)
  THEN /\ consecutive_breaches' =
            [consecutive_breaches EXCEPT ![city] = @ + 1]
       /\ IF AlertDue(consecutive_breaches'[city])
          THEN trigger_alert(city, temp, smtp_ok)
          ELSE UNCHANGED <<alerts, emails>>
  ELSE /\ consecutive_breaches' = [consecutive_breaches EXCEPT ![city] = @ - 1]
       /\ UNCHANGED <<alerts, emails>>

check_temperature_threshold(city, temp, smtp_ok) ==
  IF IsBreach(temp)
  THEN /\ consecutive_breaches' =
            [consecutive_breaches EXCEPT ![city] = @ + 1]
       /\ IF AlertDue(consecutive_breaches'[city])
          THEN trigger_alert(city, temp, smtp_ok)
          ELSE UNCHANGED <<alerts, emails>>
  ELSE /\ consecutive_breaches' = [consecutive_breaches EXCEPT ![city] = 0]
       /\ UNCHANGED <<alerts, emails>>

(* ------------------------------ WeatherDB ----------------------------- *)
\* date(timestamp, "unixepoch"): the UTC calendar day of a time stamp
SqlDate(timestamp) == timestamp \div SecondsPerDay

\* datetime.fromtimestamp(timestamp): broken-down local time
LocalSeconds(timestamp) == timestamp + utc_offset

LocalDate(timestamp) == LocalSeconds(timestamp) \div SecondsPerDay

LocalHour(timestamp) == (LocalSeconds(timestamp) % SecondsPerDay) \div SecondsPerHour

LocalMinute(timestamp) == (LocalSeconds(timestamp) % SecondsPerHour) \div SecondsPerMinute

\* INSERT INTO weather_data: a new row, with the next id
store_weather_data(city, timestamp, main, temp, feels_like) ==
  Append(weather_data, [city |-> city, timestamp |-> timestamp, main |-> main,
                        temp |-> temp, feels_like |-> feels_like])

\* INSERT INTO daily_summaries: a new row, with the next id (the table has no
\* key on (city, date))
store_daily_summary(table, city, date, avg_temp, max_temp, min_temp, dominant_weather) ==
  Append(table, [city |-> city, date |-> date, avg_temp |-> avg_temp,
                 max_temp |-> max_temp, min_temp |-> min_temp,
                 dominant_weather |-> dominant_weather])

\* SELECT * FROM weather_data WHERE city = ? AND date(timestamp, "unixepoch") = ?
get_daily_data(city, date) ==
  SelectSeq(weather_data, LAMBDA row : row.city = city /\ SqlDate(row.timestamp) = date)

(* --------------------------- daily summary ---------------------------- *)
weather_severity ==
  ("Thunderstorm" :> 5) @@ ("Snow" :> 4) @@ ("Rain" :> 3) @@
  ("Drizzle" :> 2) @@ ("Clouds" :> 1) @@ ("Clear" :> 0)

\* weather_severity.get(x, 0)
Severity(x) == IF x \in DOMAIN weather_severity THEN weather_severity[x] ELSE 0

RECURSIVE SumSeq(_)
SumSeq(s) == IF s = <<>> THEN 0 ELSE Head(s) + SumSeq(Tail(s))

MaxSeq(s) == CHOOSE x \in {s[i] : i \in DOMAIN s} : \A i \in DOMAIN s : s[i] <= x

MinSeq(s) == CHOOSE x \in {s[i] : i \in DOMAIN s} : \A i \in DOMAIN s : x <= s[i]

Occurrences(s, x) == Cardinality({i \in DOMAIN s : s[i] = x})

\* the keys of Counter(s): the distinct elements in order of first occurrence
RECURSIVE FirstOccurrences(_)
FirstOccurrences(s) ==
  IF s = <<>> THEN <<>>
  ELSE LET rest == FirstOccurrences(SubSeq(s, 1, Len(s) - 1))
           x == s[Len(s)]
       IN IF \E i \in DOMAIN rest : rest[i] = x THEN rest ELSE Append(rest, x)

\* Counter(s).items()
Counter(s) ==
  LET keys == FirstOccurrences(s)
  IN [i \in DOMAIN keys |-> [condition |-> keys[i], count |-> Occurrences(s, keys[i])]]

\* the items with count k, k-1, ..., 1 in turn, each group in its original order
RECURSIVE ByCountDown(_, _)
ByCountDown(items, k) ==
  IF k = 0 THEN <<>>
  ELSE SelectSeq(items, LAMBDA it : it.count = k) \o ByCountDown(items, k - 1)

\* Counter.most_common(): sorted by count, largest first, stable
most_common(items) ==
  LET total == SumSeq([i \in DOMAIN items |-> items[i].count])
  IN ByCountDown(items, total)

\* max(tied_conditions, key=severity): the first element with the largest key
MaxBySeverity(tied) ==
  LET i == CHOOSE i \in DOMAIN tied :
             /\ \A j \in DOMAIN tied : Severity(tied[j]) <= Severity(tied[i])
             /\ \A j \in 1..(i - 1) : Severity(tied[j]) < Severity(tied[i])
  IN tied[i]

\* variant of DominantWeather: no tie-break, the first of most_common() wins
DominantWeatherMutFirst(weather_conditions) ==
  most_common(Counter(weather_conditions))[1].condition

\* lines 166-184 of calculate_daily_summary
DominantWeather(weather_conditions) ==
  LET mc == most_common(Counter(weather_conditions))
  IN IF Len(mc) > 1 /\ mc[1].count = mc[2].count
     THEN LET tied == SelectSeq(mc, LAMBDA it : it.count = mc[1].count)
          IN MaxBySeverity([i \in DOMAIN tied |-> tied[i].condition])
     ELSE mc[1].condition

\* variant of SummaryOf: a row is written even when there are no observations
SummaryOfMutSkipNever(table, city, date, rows) ==
  LET temperatures == [i \in DOMAIN rows |-> rows[i].temp]
  IN store_daily_summary(table, city, date, <<SumSeq(temperatures), Len(rows)>>,
                         0, 0, "Clear")

\* calculate_daily_summary applied to table daily_summaries, given the rows
\* get_daily_data returned: the new contents of the table
SummaryOf(table, city, date, rows) ==
  IF rows = <<>>
  THEN table
  ELSE LET temperatures == [i \in DOMAIN rows |-> rows[i].temp]
           weather_conditions == [i \in DOMAIN rows |-> rows[i].main]
       IN store_daily_summary(table, city, date,
                              <<SumSeq(temperatures), Len(temperatures)>>,
                              MaxSeq(temperatures), MinSeq(temperatures),
                              DominantWeather(weather_conditions))

calculate_daily_summary(city, date) ==
  daily_summaries' = SummaryOf(daily_summaries, city, date, get_daily_data(city, date))

(* ------------------------- the provider's answers --------------------- *)
\* what the provider may report, as (main.temp, weather[0].main): 0.00 C with
\* rain (32.00 F) and 36.00 C with a clear sky (96.80 F)
ProviderReadings == {<<27315, "Rain">>, <<30915, "Clear">>}

\* how far the payload's dt may lie behind the wall clock, in seconds
ProviderLags == {0}

\* a payload with main.temp, main.feels_like, weather[0].main and dt
Payload(kelvin, main, dt) ==
  [kind |-> "ok", temp |-> kelvin, feels_like |-> kelvin + 500, main |-> main, dt |-> dt]

\* a JSON body that parses to a falsy value ({}, [], null)
EmptyPayload == [kind |-> "empty"]

\* a JSON object that lacks one of the four fields, e.g. {'main': {'temp': 300}}
MalformedPayload == [kind |-> "malformed"]

NoObs == [temp |-> 0, feels_like |-> 0, main |-> "", dt |-> 0]

NoLast == [op |-> "none", city |-> "", arg |-> 0]

\* no request served yet: the number of requests, of provider fetches made by
\* handlers and of responses 500, and the route served last
NoRequests == [requests |-> 0, fetches |-> 0, failed |-> 0, route |-> ""]

EmptyLog == [c \in CitySet |-> {}]

Logged(city, tag) == [log EXCEPT ![city] = @ \cup {tag}]

(* ------------------------------ run loop ------------------------------ *)
city_now == cities[idx]

\* variant of NextCity: the loop sleeps as soon as one city is done
NextCityMutSleepEarly == idx' = idx /\ pc' = "sleep"

\* the for statement of run: the next city, or the sleep after the last one
NextCity ==
  IF idx < Len(cities)
  THEN idx' = idx + 1 /\ pc' = "fetch"
  ELSE idx' = idx /\ pc' = "sleep"

\* an exception that nothing catches leaves run(): the loop is over
Raise(exception) ==
  /\ pc' = "crashed"
  /\ error' = exception
  /\ idx' = idx

\* variant of FetchFailed: the exception is not caught and leaves run()
FetchFailedMutRaise(city) ==
  /\ Raise("RequestException")
  /\ data' = None
  /\ log' = Logged(city, "fetch_failed")
  /\ last' = [op |-> "fetch_failed", city |-> city, arg |-> 0]
  /\ UNCHANGED <<dashboard, config, utc_offset, clock, weather_data, daily_summaries,
                 consecutive_breaches, obs, cycle, alerts, emails, calls, readings>>

\* fetch_weather_data, except branch: the error is logged and None returned
FetchFailed(city) ==
  /\ data' = None
  /\ pc' = "process"
  /\ log' = Logged(city, "fetch_failed")
  /\ last' = [op |-> "fetch_failed", city |-> city, arg |-> 0]
  /\ UNCHANGED <<dashboard, config, utc_offset, clock, weather_data, daily_summaries,
                 consecutive_breaches, idx, obs, cycle, alerts, emails, error, calls, readings>>

\* fetch_weather_data, try branch: response.json() is returned as it is
FetchReturned(city, payload) ==
  /\ data' = payload
  /\ pc' = "process"
  /\ log' = Logged(city, "fetch")
  /\ last' = [op |-> "fetch", city |-> city, arg |-> 0]
  /\ UNCHANGED <<dashboard, config, utc_offset, clock, weather_data, daily_summaries,
                 consecutive_breaches, idx, obs, cycle, alerts, emails, error, calls, readings>>

\* run, line 254: data = self.fetch_weather_data(city)
Fetch ==
  /\ pc = "fetch"
  /\ \/ FetchFailed(city_now)
     \/ FetchReturned(city_now, EmptyPayload)
     \/ FetchReturned(city_now, MalformedPayload)
     \/ \E r \in ProviderReadings, lag \in ProviderLags :
          FetchReturned(city_now, Payload(r[1], r[2], clock - lag))

\* variant of Process: a fetch that delivered nothing clears the city's count
ProcessMutResetOnFailure ==
  /\ pc = "process"
  /\ IF data = None \/ data.kind = "empty"
     THEN /\ NextCity
          /\ consecutive_breaches' = [consecutive_breaches EXCEPT ![city_now] = 0]
          /\ UNCHANGED <<obs, error>>
     ELSE IF data.kind = "malformed"
     THEN /\ Raise("KeyError")
          /\ UNCHANGED <<obs, consecutive_breaches>>
     ELSE /\ obs' = [temp |-> convert_temperature(data.temp),
                     feels_like |-> convert_temperature(data.feels_like),
                     main |-> data.main, dt |-> data.dt]
          /\ pc' = "store"
          /\ UNCHANGED <<idx, error, consecutive_breaches>>
  /\ log' = IF data # None /\ data.kind = "ok" THEN Logged(city_now, "parsed") ELSE log
  /\ data' = None
  /\ last' = [op |-> "process", city |-> city_now, arg |-> 0]
  /\ UNCHANGED <<dashboard, config, utc_offset, clock, weather_data, daily_summaries,
                 cycle, alerts, emails, calls, readings>>

\* process_weather_data, lines 134-140: the early return and the field reads
Process ==
  /\ pc = "process"
  /\ IF data = None \/ data.kind = "empty"
     THEN /\ NextCity
          /\ UNCHANGED <<obs, error>>
     ELSE IF data.kind = "malformed"
     THEN /\ Raise("KeyError")
          /\ UNCHANGED obs
     ELSE /\ obs' = [temp |-> convert_temperature(data.temp),
                     feels_like |-> convert_temperature(data.feels_like),
                     main |-> data.main, dt |-> data.dt]
          /\ pc' = "store"
          /\ UNCHANGED <<idx, error>>
  /\ log' = IF data # None /\ data.kind = "ok" THEN Logged(city_now, "parsed") ELSE log
  /\ data' = None
  /\ last' = [op |-> "process", city |-> city_now, arg |-> 0]
  /\ UNCHANGED <<dashboard, config, utc_offset, clock, weather_data, daily_summaries,
                 consecutive_breaches, cycle, alerts, emails, calls, readings>>

\* process_weather_data, line 143: the INSERT, which SQLite may refuse
Store ==
  /\ pc = "store"
  /\ \/ /\ weather_data' = store_weather_data(city_now, obs.dt, obs.main,
                                              obs.temp, obs.feels_like)
        /\ pc' = "check"
        /\ log' = Logged(city_now, "store")
        /\ UNCHANGED <<idx, error>>
     \/ /\ Raise("sqlite3.Error")
        /\ UNCHANGED <<weather_data, log>>
  /\ last' = [op |-> "store", city |-> city_now, arg |-> obs.dt]
  /\ UNCHANGED <<dashboard, config, utc_offset, clock, daily_summaries, consecutive_breaches,
                 data, obs, cycle, alerts, emails, calls, readings>>

\* process_weather_data, line 146
Check ==
  /\ pc = "check"
  /\ \E smtp_ok \in BOOLEAN :
       /\ check_temperature_threshold(city_now, obs.temp, smtp_ok)
       /\ IF alerts' # alerts /\ send_email_alert_error(smtp_ok) # "none"
          THEN Raise(send_email_alert_error(smtp_ok))
          ELSE pc' = "eod" /\ UNCHANGED <<idx, error>>
  /\ log' = [log EXCEPT ![city_now] =
               @ \cup {"check"}
                 \cup (IF alerts' # alerts THEN {"alert"} ELSE {})
                 \cup (IF emails'.attempts > emails'.sent + (emails.attempts - emails.sent)
                       THEN {"send_failed"} ELSE {})]
  /\ readings' = [readings EXCEPT ![city_now] = Append(@, obs.temp)]
  /\ last' = [op |-> "check", city |-> city_now, arg |-> obs.temp]
  /\ UNCHANGED <<dashboard, config, utc_offset, clock, weather_data, daily_summaries,
                 data, obs, cycle, calls>>

\* variant of IsEndOfDay: minute 55 itself is not yet the end of the day
IsEndOfDayMutAfter(timestamp) ==
  LocalHour(timestamp) = EndOfDayHour /\ LocalMinute(timestamp) > EndOfDayMinute

\* the test of line 150
IsEndOfDay(timestamp) ==
  LocalHour(timestamp) = EndOfDayHour /\ LocalMinute(timestamp) >= EndOfDayMinute

\* process_weather_data, lines 149-151: the summary at the end of the day,
\* whose SELECT or INSERT SQLite may refuse
EndOfDay ==
  /\ pc = "eod"
  /\ IF IsEndOfDay(obs.dt)
     THEN \/ /\ calculate_daily_summary(city_now, LocalDate(obs.dt))
             /\ log' = Logged(city_now, "summary")
             /\ NextCity
             /\ UNCHANGED error
          \/ /\ Raise("sqlite3.Error")
             /\ log' = Logged(city_now, "summary")
             /\ UNCHANGED daily_summaries
     ELSE /\ NextCity
          /\ UNCHANGED <<daily_summaries, log, error>>
  /\ obs' = NoObs
  /\ last' = [op |-> "eod", city |-> city_now, arg |-> LocalDate(obs.dt)]
  /\ UNCHANGED <<dashboard, config, utc_offset, clock, weather_data, consecutive_breaches,
                 data, cycle, alerts, emails, calls, readings>>

\* run, line 257, and the start of the next cycle
Sleep ==
  /\ pc = "sleep"
  /\ cycle < MaxCycles
  /\ clock' = clock + config.interval_minutes * SecondsPerMinute
  /\ cycle' = cycle + 1
  /\ idx' = 1
  /\ pc' = "fetch"
  /\ log' = EmptyLog
  /\ last' = [op |-> "sleep", city |-> "", arg |-> 0]
  /\ UNCHANGED <<dashboard, config, utc_offset, weather_data, daily_summaries,
                 consecutive_breaches, data, obs, alerts, emails, error, calls, readings>>

(* ---------------------------- initial states -------------------------- *)
Intervals == {1, DefaultInterval}

Units == {"celsius"}

\* local UTC offsets: UTC itself and UTC-5
UtcOffsets == {0, -5 * SecondsPerHour}

\* the local time of day at which the process is started: 23:54 and 23:55
StartTimes ==
  {EndOfDayHour * SecondsPerHour + m * SecondsPerMinute : m \in {54, EndOfDayMinute}}

\* WeatherMonitor.__init__ and WeatherDB.init_db: empty tables, all counts 0
Fresh ==
  /\ weather_data = <<>>
  /\ daily_summaries = <<>>
  /\ consecutive_breaches = [c \in CitySet |-> 0]
  /\ idx = 1
  /\ data = None
  /\ obs = NoObs
  /\ cycle = 1
  /\ alerts = <<>>
  /\ emails = [attempts |-> 0, sent |-> 0]
  /\ error = "none"
  /\ log = EmptyLog
  /\ calls = 0
  /\ readings = [c \in CitySet |-> <<>>]
  /\ last = NoLast
  /\ dashboard = NoRequests

Init ==
  /\ Fresh
  /\ pc = "fetch"
  /\ \E i \in Intervals, u \in Units :
       config = Config(i, u, DefaultRequired, DefaultEmailConfig)
  /\ utc_offset \in UtcOffsets
  /\ \E t \in StartTimes : clock = SecondsPerDay + t - utc_offset

Next == Fetch \/ Process \/ Store \/ Check \/ EndOfDay \/ Sleep

Spec == Init /\ [][Next]_vars

\* the run loop with a complete e-mail configuration, so that a fired alert
\* opens an SMTP session, and with the alert due after one or two breaches
InitAlert ==
  /\ Fresh
  /\ pc = "fetch"
  /\ \E n \in {1, DefaultRequired} :
       config = Config(DefaultInterval, "celsius", n, CompleteEmailConfig)
  /\ utc_offset = 0
  /\ \E t \in StartTimes : clock = SecondsPerDay + t

SpecAlert == InitAlert /\ [][Next]_vars

(* ------------------- the Flask application of app.py ----------------- *)
\* what every handler leaves alone: the monitor and both tables
HandlerFrame ==
  UNCHANGED <<config, utc_offset, clock, weather_data, daily_summaries,
              consecutive_breaches, pc, idx, data, obs, cycle, alerts, emails,
              error, log, calls, readings, last>>

Served(route, fetches, failed) ==
  [requests |-> dashboard.requests + 1, fetches |-> dashboard.fetches + fetches,
   failed |-> dashboard.failed + failed, route |-> route]

\* the process of app.py is alive and serves requests
Serving == pc \notin {"api", "killed"} /\ dashboard.requests < MaxRequests

\* GET /: renders the list of configured cities
index ==
  /\ Serving
  /\ dashboard' = Served("/", 0, 0)
  /\ HandlerFrame

\* GET /api/current_weather/<city>: calls fetch_weather_data(city), a request
\* to the provider, and answers 404 when it returned nothing, 500 when the
\* payload lacks a field, else 200
current_weather ==
  /\ Serving
  /\ \E answer \in {None, EmptyPayload, MalformedPayload, Payload(KelvinOffset, "Rain", clock)} :
       dashboard' = Served("/api/current_weather", 1,
                           IF answer = MalformedPayload THEN 1 ELSE 0)
  /\ HandlerFrame

\* GET /api/daily_summary/<city>: `with weather_monitor.db.db_path as conn`
\* enters a str, which raises; the response is 500 and nothing is read
daily_summary ==
  /\ Serving
  /\ dashboard' = Served("/api/daily_summary", 0, 1)
  /\ HandlerFrame

\* GET /api/alerts/<city>: the same `with` statement, the same failure
alerts_route ==
  /\ Serving
  /\ dashboard' = Served("/api/alerts", 0, 1)
  /\ HandlerFrame

\* the process ends (SIGINT or SIGTERM, or the main thread leaves app.run):
\* run() has no stop flag and its thread is a daemon thread, so the loop is
\* cut off wherever it is
Kill ==
  /\ pc \notin {"api", "killed", "crashed"}
  /\ pc' = "killed"
  /\ UNCHANGED <<dashboard, config, utc_offset, clock, weather_data, daily_summaries,
                 consecutive_breaches, idx, data, obs, cycle, alerts, emails,
                 error, log, calls, readings, last>>

\* start_monitor_thread and app.run: the loop in a daemon thread, the
\* handlers in the threads of the web server
InitApp ==
  /\ Fresh
  /\ pc = "fetch"
  /\ config = Config(DefaultInterval, "celsius", DefaultRequired, DefaultEmailConfig)
  /\ utc_offset = 0
  /\ clock = SecondsPerDay + EndOfDayHour * SecondsPerHour
                + EndOfDayMinute * SecondsPerMinute

NextApp ==
  Next \/ index \/ current_weather \/ daily_summary \/ alerts_route \/ Kill

SpecApp == InitApp /\ [][NextApp]_vars

(* ------------------- direct calls of the threshold check -------------- *)
\* the temperatures handed to check_temperature_threshold: 30.0, exactly the
\* threshold of 35.0, and 36.0 as in test_alerting_thresholds
CallTemps == {3000, DefaultThreshold, 3600}

\* a caller invokes check_temperature_threshold(city, temp) on a monitor
CallCheckTemperatureThreshold ==
  /\ pc = "api"
  /\ calls < MaxCalls
  /\ \E city \in CitySet, temp \in CallTemps, smtp_ok \in BOOLEAN :
       /\ check_temperature_threshold(city, temp, smtp_ok)
       /\ error' = IF alerts' # alerts /\ send_email_alert_error(smtp_ok) # "none"
                   THEN send_email_alert_error(smtp_ok)
                   ELSE error
       /\ readings' = [readings EXCEPT ![city] = Append(@, temp)]
       /\ last' = [op |-> "check", city |-> city, arg |-> temp]
  /\ calls' = calls + 1
  /\ UNCHANGED <<dashboard, config, utc_offset, clock, weather_data, daily_summaries, pc, idx,
                 data, obs, cycle, log>>

InitThreshold ==
  /\ Fresh
  /\ pc = "api"
  /\ \E n \in 1..MaxRequired, e \in {DefaultEmailConfig, CompleteEmailConfig} :
       config = Config(DefaultInterval, "celsius", n, e)
  /\ utc_offset = 0
  /\ clock = SecondsPerDay

NextThreshold == CallCheckTemperatureThreshold

SpecThreshold == InitThreshold /\ [][NextThreshold]_vars

(* ------------------------ direct calls of the alert ------------------- *)
\* an email_config dict with the keys of present, those of empty holding ''
\* (0 for the port) and the others the values of a complete configuration
PartialEmailConfig(present, empty) ==
  [key \in present |->
     IF key \in empty
     THEN (IF key = "smtp_port" THEN 0 ELSE "")
     ELSE CompleteEmailConfig[key]]

\* a caller invokes trigger_alert(city, temp) on a monitor
CallTriggerAlert ==
  /\ pc = "api"
  /\ calls < MaxCalls
  /\ consecutive_breaches' = consecutive_breaches
  /\ \E smtp_ok \in BOOLEAN :
       /\ trigger_alert(cities[1], DefaultThreshold + 100, smtp_ok)
       /\ error' = send_email_alert_error(smtp_ok)
  /\ last' = [op |-> "alert", city |-> cities[1], arg |-> DefaultThreshold + 100]
  /\ calls' = calls + 1
  /\ UNCHANGED <<dashboard, config, utc_offset, clock, weather_data, daily_summaries, pc, idx,
                 data, obs, cycle, log, readings>>

\* a monitor constructed with any email_config dict: each of the five keys is
\* absent, present and empty, or present and set
InitEmail ==
  /\ Fresh
  /\ pc = "api"
  /\ \E present \in SUBSET EmailFields : \E empty \in SUBSET present :
       config = Config(DefaultInterval, "celsius", DefaultRequired,
                       PartialEmailConfig(present, empty))
  /\ utc_offset = 0
  /\ clock = SecondsPerDay

NextEmail == CallTriggerAlert

SpecEmail == InitEmail /\ [][NextEmail]_vars

(* --------------------- direct calls of the daily summary -------------- *)
\* conditions of the stored rows: the six of the severity table and one that
\* is not in it
AggConditions == DOMAIN weather_severity \cup {"Mist"}

\* the temperature stored with a condition: 27.0 under a clear sky, else 22.0
AggTemp(m) == IF m = "Clear" THEN 2700 ELSE 2200

\* noon of the day that is summarized (the second day of the epoch), and
\* that day as SQLite names it
AggNoon == SecondsPerDay + 12 * SecondsPerHour

AggDay == SqlDate(AggNoon)

AggCity == cities[1]

\* rows of weather_data: observations of one city at noon of the day, and one
\* of the following day
AggRows ==
  {[city |-> AggCity, timestamp |-> AggNoon, main |-> m, temp |-> AggTemp(m),
    feels_like |-> AggTemp(m) + 100] : m \in AggConditions}
  \cup {[city |-> AggCity, timestamp |-> AggNoon + SecondsPerDay, main |-> "Clear",
         temp |-> AggTemp("Clear"), feels_like |-> AggTemp("Clear") + 100]}

\* a caller invokes calculate_daily_summary(city, date) on a monitor
CallCalculateDailySummary ==
  /\ pc = "api"
  /\ calls < MaxSummaries
  /\ \E date \in {AggDay, AggDay + 1} :
       /\ calculate_daily_summary(AggCity, date)
       /\ last' = [op |-> "summary", city |-> AggCity, arg |-> date]
  /\ calls' = calls + 1
  /\ UNCHANGED <<dashboard, config, utc_offset, clock, weather_data, consecutive_breaches, pc,
                 idx, data, obs, cycle, alerts, emails, error, log, readings>>

InitAgg ==
  /\ daily_summaries = <<>>
  /\ weather_data \in UNION {[1..n -> AggRows] : n \in 0..MaxRows}
  /\ consecutive_breaches = [c \in CitySet |-> 0]
  /\ idx = 1
  /\ data = None
  /\ obs = NoObs
  /\ cycle = 1
  /\ alerts = <<>>
  /\ emails = [attempts |-> 0, sent |-> 0]
  /\ error = "none"
  /\ log = EmptyLog
  /\ calls = 0
  /\ readings = [c \in CitySet |-> <<>>]
  /\ last = NoLast
  /\ dashboard = NoRequests
  /\ pc = "api"
  /\ config = Config(DefaultInterval, "celsius", DefaultRequired, DefaultEmailConfig)
  /\ utc_offset = 0
  /\ clock = AggNoon + SecondsPerDay

NextAgg == CallCalculateDailySummary

SpecAgg == InitAgg /\ [][NextAgg]_vars

(* ------------------ the daily statistics in binary64 ------------------ *)
\* A temperature column is a REAL, a Python float: an IEEE 754 binary64 with
\* a significand of 53 bits.  A double d with 16 <= d < 128 is represented
\* here exactly, by the integer d * 2^48 written as four limbs of 16 bits,
\* least significant first.
Limb == 2 ^ 16

SignificandBits == 52 + 1

\* d * 2^48 has 48 bits below the top limb
BitLength(x) ==
  48 + (CHOOSE k \in 0..16 : x[4] < 2 ^ k /\ (k = 0 \/ x[4] >= 2 ^ (k - 1)))

\* exact addition of two integers of four limbs
BigAdd(a, b) ==
  LET s1 == a[1] + b[1]
      s2 == a[2] + b[2] + s1 \div Limb
      s3 == a[3] + b[3] + s2 \div Limb
      s4 == a[4] + b[4] + s3 \div Limb
  IN <<s1 % Limb, s2 % Limb, s3 % Limb, s4>>

\* exact division of an integer of four limbs by a small positive integer:
\* the quotient and the remainder
BigDivMod(x, n) ==
  LET c4 == x[4]
      c3 == (c4 % n) * Limb + x[3]
      c2 == (c3 % n) * Limb + x[2]
      c1 == (c2 % n) * Limb + x[1]
  IN [quot |-> <<c1 \div n, c2 \div n, c3 \div n, c4 \div n>>, rem |-> c1 % n]

\* a <= b
BigLeq(a, b) ==
  \/ a = b
  \/ \E i \in 1..4 : a[i] < b[i] /\ \A j \in (i + 1)..4 : a[j] = b[j]

\* the double nearest to x + num / den (0 <= num < den), ties to even: the
\* bits of x below its 53 leading ones are rounded away
RoundToDouble(x, num, den) ==
  LET e == BitLength(x) - SignificandBits
      low == x[1] % (2 ^ e)
      floor == [x EXCEPT ![1] = @ - low]
      twice == 2 * (low * den + num)
      up == \/ twice > (2 ^ e) * den
            \/ twice = (2 ^ e) * den /\ (x[1] \div (2 ^ e)) % 2 = 1
  IN IF up THEN BigAdd(floor, <<2 ^ e, 0, 0, 0>>) ELSE floor

\* a + b of two floats
FloatAdd(a, b) == RoundToDouble(BigAdd(a, b), 0, 1)

\* sum(temperatures): the floats are added from left to right, every
\* addition rounded
RECURSIVE FloatSum(_)
FloatSum(s) ==
  IF Len(s) = 1 THEN s[1]
  ELSE FloatAdd(FloatSum(SubSeq(s, 1, Len(s) - 1)), s[Len(s)])

\* x / n for a float x and n = len(temperatures)
FloatDiv(x, n) ==
  LET d == BigDivMod(x, n) IN RoundToDouble(d.quot, d.rem, n)

\* max(temperatures) and min(temperatures)
FloatMax(s) == CHOOSE x \in {s[i] : i \in DOMAIN s} : \A i \in DOMAIN s : BigLeq(s[i], x)

FloatMin(s) == CHOOSE x \in {s[i] : i \in DOMAIN s} : \A i \in DOMAIN s : BigLeq(x, s[i])

\* calculate_daily_summary on rows whose temperatures are doubles: lines
\* 158-163 in the arithmetic of Python
SummaryOfDoubles(table, city, date, rows) ==
  IF rows = <<>>
  THEN table
  ELSE LET temperatures == [i \in DOMAIN rows |-> rows[i].temp]
           weather_conditions == [i \in DOMAIN rows |-> rows[i].main]
       IN store_daily_summary(table, city, date,
                              FloatDiv(FloatSum(temperatures), Len(temperatures)),
                              FloatMax(temperatures), FloatMin(temperatures),
                              DominantWeather(weather_conditions))

\* the doubles 22.0, 23.0, 25.0 and 27.0 of test_daily_summary, and
\* 85.424 (0x1.55b22d0e56042p+6), which is what kelvin_to_fahrenheit(302.83)
\* returns
Double22 == <<0, 0, 0, 22>>

Double23 == <<0, 0, 0, 23>>

Double25 == <<0, 0, 0, 25>>

Double27 == <<0, 0, 0, 27>>

Double85_424 == <<33032, 17301, 27787, 85>>

Doubles == {Double22, Double23, Double25, Double27, Double85_424}

\* the condition stored with a temperature
StatsMain(temp) == IF temp = Double85_424 THEN "Clear" ELSE "Clouds"

StatsRows ==
  {[city |-> AggCity, timestamp |-> AggNoon, main |-> StatsMain(t), temp |-> t,
    feels_like |-> t] : t \in Doubles}

\* every addition of sum(temperatures) but the last is exact: on such a list
\* the left-to-right sum of CPython up to 3.11 and the compensated sum of
\* CPython 3.12 return the same double
SumIsUnambiguous(rows) ==
  \A n \in 2..(Len(rows) - 1) :
    LET front == [i \in 1..(n - 1) |-> rows[i].temp]
    IN FloatAdd(FloatSum(front), rows[n].temp) = BigAdd(FloatSum(front), rows[n].temp)

\* a caller invokes calculate_daily_summary(city, date) on a monitor whose
\* table holds doubles
CallCalculateDailySummaryOfDoubles ==
  /\ pc = "api"
  /\ calls < MaxSummaries
  /\ \E date \in {AggDay, AggDay + 1} :
       /\ daily_summaries' =
            SummaryOfDoubles(daily_summaries, AggCity, date, get_daily_data(AggCity, date))
       /\ last' = [op |-> "summary", city |-> AggCity, arg |-> date]
  /\ calls' = calls + 1
  /\ UNCHANGED <<dashboard, config, utc_offset, clock, weather_data, consecutive_breaches,
                 pc, idx, data, obs, cycle, alerts, emails, error, log, readings>>

\* a store with up to MaxRows observations of one city and day
InitStats ==
  /\ daily_summaries = <<>>
  /\ weather_data \in {rows \in UNION {[1..n -> StatsRows] : n \in 0..MaxRows} :
                         SumIsUnambiguous(rows)}
  /\ consecutive_breaches = [c \in CitySet |-> 0]
  /\ idx = 1
  /\ data = None
  /\ obs = NoObs
  /\ cycle = 1
  /\ alerts = <<>>
  /\ emails = [attempts |-> 0, sent |-> 0]
  /\ error = "none"
  /\ log = EmptyLog
  /\ calls = 0
  /\ readings = [c \in CitySet |-> <<>>]
  /\ last = NoLast
  /\ dashboard = NoRequests
  /\ pc = "api"
  /\ config = Config(DefaultInterval, "fahrenheit", DefaultRequired, DefaultEmailConfig)
  /\ utc_offset = 0
  /\ clock = AggNoon + SecondsPerDay

NextStats == CallCalculateDailySummaryOfDoubles

SpecStats == InitStats /\ [][NextStats]_vars

(* ======================= properties of the engine ===================== *)
\* a step that is one execution of check_temperature_threshold, for city
\* last'.city with temperature last'.arg
CheckStep == last'.op = "check" /\ (calls' = calls + 1 \/ pc = "check")

\* C1: a reading strictly above the threshold raises the city's count by
\* exactly 1, any other reading (one equal to the threshold included) sets it
\* to exactly 0, and the counts of all other cities stay as they were.
C1_BreachCountUpdate ==
  [][CheckStep =>
       LET c == last'.city
           t == last'.arg
       IN /\ t > config.temp_threshold =>
               consecutive_breaches'[c] = consecutive_breaches[c] + 1
          /\ t <= config.temp_threshold => consecutive_breaches'[c] = 0
          /\ \A o \in CitySet \ {c} :
               consecutive_breaches'[o] = consecutive_breaches[o]]_vars

\* a reading equal to the threshold has just reset a city whose previous
\* reading was a breach, while another city keeps its count of two
C1_Witness ==
  /\ last.op = "check"
  /\ last.arg = config.temp_threshold
  /\ consecutive_breaches[last.city] = 0
  /\ Len(readings[last.city]) >= 2
  /\ readings[last.city][Len(readings[last.city]) - 1] > config.temp_threshold
  /\ \E o \in CitySet \ {last.city} : consecutive_breaches[o] = 2

\* the number of breaching readings that end at reading i without a gap
RECURSIVE Streak(_, _)
Streak(r, i) ==
  IF i = 0 \/ r[i] <= config.temp_threshold THEN 0 ELSE 1 + Streak(r, i - 1)

\* the alerts a sequence of readings calls for: one for every breaching
\* reading that is at least the N-th of its streak
RECURSIVE ExpectedAlerts(_, _, _)
ExpectedAlerts(c, r, i) ==
  IF i = 0 THEN <<>>
  ELSE ExpectedAlerts(c, r, i - 1) \o
       (IF Streak(r, i) >= config.consecutive_threshold_breaches
        THEN <<[city |-> c, temp |-> r[i], count |-> Streak(r, i)]>>
        ELSE <<>>)

AlertsOf(c) == SelectSeq(alerts, LAMBDA a : a.city = c)

\* C2: for every city the alerts fired so far are exactly those of the
\* breaching readings whose streak has reached the required count: none on
\* the first N-1 readings of a streak, none on a non-breaching reading, one on
\* every further breaching reading; the count is the length of the streak.
C2_AlertIffConfirmedBreach ==
  \A c \in CitySet :
    /\ AlertsOf(c) = ExpectedAlerts(c, readings[c], Len(readings[c]))
    /\ consecutive_breaches[c] = Streak(readings[c], Len(readings[c]))

\* with N = 2, three breaching readings and a normal one: alerts on the
\* second and the third reading only
C2_Witness ==
  \E c \in CitySet :
    /\ config.consecutive_threshold_breaches = 2
    /\ readings[c] = <<3600, 3600, 3600, 3000>>
    /\ Len(AlertsOf(c)) = 2
    /\ consecutive_breaches[c] = 0

\* C3: the daily-summary table never holds two rows for one (city, date).
C3_OneSummaryRowPerKey ==
  \A i, j \in DOMAIN daily_summaries :
    (daily_summaries[i].city = daily_summaries[j].city
       /\ daily_summaries[i].date = daily_summaries[j].date) => i = j

\* the loop has finished the city at position b of the list in this cycle
Passed(b) == idx > b \/ pc = "sleep"

\* C4: a failed fetch for a city never ends the loop, and every city after it
\* in the list is fetched in the same cycle; when that fetch delivers an
\* observation, its store and threshold check are executed as well.
C4_FetchFailureIsolation ==
  \A a \in 1..Len(cities) :
    "fetch_failed" \in log[cities[a]] =>
      /\ ~(pc = "crashed" /\ idx = a)
      /\ \A b \in (a + 1)..Len(cities) :
           /\ Passed(b) => log[cities[b]] \cap {"fetch", "fetch_failed"} # {}
           /\ (Passed(b) /\ "parsed" \in log[cities[b]]) =>
                {"store", "check"} \subseteq log[cities[b]]

\* the first city's fetch failed and the second was fetched, stored and checked
C4_Witness ==
  /\ "fetch_failed" \in log[cities[1]]
  /\ {"fetch", "parsed", "store", "check"} \subseteq log[cities[2]]
  /\ Len(weather_data) = 1
  /\ weather_data[1].city = cities[2]

\* C5: a persistence failure in one city's pipeline never terminates the loop.
C5_StoreErrorDoesNotStopLoop == ~(pc = "crashed" /\ error = "sqlite3.Error")

\* C6: a payload that lacks a field is handled as a fetch failure: nothing is
\* raised to the loop.
C6_MalformedPayloadIsFetchFailure == ~(pc = "crashed" /\ error = "KeyError")

\* the conditions of the observations a summary row was computed from
ConditionsOf(s) ==
  LET rows == get_daily_data(s.city, s.date)
  IN [i \in DOMAIN rows |-> rows[i].main]

\* the conditions of the highest frequency among those observations
MostFrequent(s) ==
  LET conds == ConditionsOf(s)
      set == {conds[i] : i \in DOMAIN conds}
  IN {c \in set : \A d \in set : Occurrences(conds, d) <= Occurrences(conds, c)}

\* the severity ranking: Thunderstorm 5 > Snow 4 > Rain 3 > Drizzle 2 >
\* Clouds 1 > Clear 0, and 0 for any other condition
Ranked == {"Thunderstorm", "Snow", "Rain", "Drizzle", "Clouds", "Clear"}

Rank(c) ==
  CASE c = "Thunderstorm" -> 5
    [] c = "Snow" -> 4
    [] c = "Rain" -> 3
    [] c = "Drizzle" -> 2
    [] c = "Clouds" -> 1
    [] OTHER -> 0

\* C7: the dominant condition of every summary is one of the most frequent
\* conditions of its observations (the most frequent one when that is unique)
\* and none of the most frequent conditions has a higher severity, for ties
\* of any width.
C7_DominantIsMostFrequentThenSeverest ==
  \A i \in DOMAIN daily_summaries :
    LET s == daily_summaries[i]
    IN /\ s.dominant_weather \in MostFrequent(s)
       /\ \A c \in MostFrequent(s) : Rank(c) <= Rank(s.dominant_weather)

\* a three-way tie whose severest condition was stored neither first nor last
C7_Witness ==
  /\ Len(weather_data) = 3
  /\ [i \in 1..3 |-> weather_data[i].main] = <<"Clear", "Snow", "Rain">>
  /\ Len(daily_summaries) = 1
  /\ daily_summaries[1].dominant_weather = "Snow"
  /\ Cardinality(MostFrequent(daily_summaries[1])) = 3

\* C8: a condition outside the severity table is never the dominant one when
\* a condition of the table is among the most frequent.
C8_UnrankedNeverBeatsRanked ==
  \A i \in DOMAIN daily_summaries :
    LET s == daily_summaries[i]
    IN s.dominant_weather \notin Ranked => MostFrequent(s) \cap Ranked = {}

\* a step that is one execution of calculate_daily_summary(city, date)
SummaryStepFor(city, date) ==
  \/ calls' = calls + 1 /\ last' = [op |-> "summary", city |-> city, arg |-> date]
  \/ /\ pc = "eod" /\ pc' # "crashed" /\ IsEndOfDay(obs.dt)
     /\ city = city_now /\ date = LocalDate(obs.dt)

\* C9: summarizing a (city, date) without observations writes nothing and
\* raises nothing: the daily-summary table is left as it was.
C9_NoDataNoSummary ==
  [][\A city \in CitySet, date \in 0..3 :
       (SummaryStepFor(city, date) /\ get_daily_data(city, date) = <<>>) =>
          daily_summaries' = daily_summaries /\ error' = "none"]_vars

\* the last call summarized a day without observations, in a store that holds
\* observations of another day and the summary of that day
C9_Witness ==
  /\ last.op = "summary"
  /\ get_daily_data(last.city, last.arg) = <<>>
  /\ weather_data # <<>>
  /\ calls = 2
  /\ Len(daily_summaries) = 1
  /\ daily_summaries[1].date # last.arg
  /\ error = "none"

RowsOf(city) == Len(SelectSeq(weather_data, LAMBDA row : row.city = city))

\* every fetch so far has delivered an observation that was stored: one row
\* per cycle for every city up to the current one, and for the others one row
\* per earlier cycle
NormalOperation ==
  \A i \in 1..Len(cities) :
    RowsOf(cities[i]) = IF i <= idx THEN cycle ELSE cycle - 1

\* C10: under normal operation a summary is written for a (city, day) only
\* when none was written for it before.
C10_OneSummaryWritePerCityPerDay ==
  [][(pc = "eod" /\ NormalOperation
        /\ Len(daily_summaries') = Len(daily_summaries) + 1) =>
       ~\E i \in DOMAIN daily_summaries :
           /\ daily_summaries[i].city = city_now
           /\ daily_summaries[i].date = LocalDate(obs.dt)]_vars

\* the time stamp lies in the last five minutes of its local calendar day
InLastFiveMinutes(timestamp) ==
  (timestamp + utc_offset) % SecondsPerDay >= SecondsPerDay - 5 * SecondsPerMinute

\* C11: when the pipeline of a fetched observation reaches the end-of-day
\* test, the summary is invoked if and only if the observation's time stamp
\* lies at hour 23, minute >= 55 of its calendar day; a row that is written
\* carries the observation's city and that calendar day; no other step and no
\* other time stamp writes a summary.
C11_SummaryIffEndOfDay ==
  [][/\ pc = "eod" =>
          /\ ("summary" \in log'[city_now]) <=> InLastFiveMinutes(obs.dt)
          /\ ~InLastFiveMinutes(obs.dt) => daily_summaries' = daily_summaries
          /\ daily_summaries' # daily_summaries =>
                /\ Len(daily_summaries') = Len(daily_summaries) + 1
                /\ daily_summaries'[Len(daily_summaries')].city = city_now
                /\ daily_summaries'[Len(daily_summaries')].date =
                     (obs.dt + utc_offset) \div SecondsPerDay
     /\ (pc # "eod" => daily_summaries' = daily_summaries)]_vars

\* an observation of 23:55 has just been summarized: the row written last is
\* the one of its city and its day
C11_Witness ==
  /\ last.op = "eod"
  /\ "summary" \in log[last.city]
  /\ daily_summaries # <<>>
  /\ daily_summaries[Len(daily_summaries)].city = last.city
  /\ daily_summaries[Len(daily_summaries)].date = last.arg
  /\ \E i \in DOMAIN weather_data :
       /\ weather_data[i].city = last.city
       /\ LocalMinute(weather_data[i].timestamp) = EndOfDayMinute

\* C12: the count of every configured city is a non-negative integer in every
\* state, it is 0 for every city at process start, and a step either leaves
\* it at least as large as it was or resets it to 0.
C12_BreachCountNonNegativeMonotone ==
  /\ \A c \in CitySet : consecutive_breaches[c] = 0
  /\ [](DOMAIN consecutive_breaches = CitySet
          /\ \A c \in CitySet : consecutive_breaches[c] \in Nat)
  /\ [][\A c \in CitySet :
          \/ consecutive_breaches'[c] >= consecutive_breaches[c]
          \/ consecutive_breaches'[c] = 0]_vars

\* one city has grown to two breaches while another was reset after one
C12_Witness ==
  \E c, o \in CitySet :
    /\ consecutive_breaches[c] = 2
    /\ Len(readings[c]) = 2
    /\ consecutive_breaches[o] = 0
    /\ Len(readings[o]) = 2
    /\ readings[o][1] > config.temp_threshold

\* the wall clock at which cycle j of the loop ran
ClockOfCycle(j) == clock - (cycle - j) * config.interval_minutes * SecondsPerMinute

\* the observations of a city that were stored in cycle j
StoredIn(c, j) ==
  SelectSeq(weather_data, LAMBDA row : row.city = c /\ row.timestamp = ClockOfCycle(j))

\* the city had a breaching reading in cycle j
BreachIn(c, j) ==
  \E i \in DOMAIN StoredIn(c, j) : StoredIn(c, j)[i].temp > config.temp_threshold

\* the number of cycles with a breaching reading, counted back from cycle j
\* without a gap
RECURSIVE CycleStreak(_, _)
CycleStreak(c, j) ==
  IF j = 0 \/ ~BreachIn(c, j) THEN 0 ELSE 1 + CycleStreak(c, j - 1)

\* the same count when the cycles in which the city has no reading (its fetch
\* failed) are passed over
RECURSIVE ReadingStreak(_, _)
ReadingStreak(c, j) ==
  IF j = 0 THEN 0
  ELSE IF StoredIn(c, j) = <<>> THEN ReadingStreak(c, j - 1)
  ELSE IF BreachIn(c, j) THEN 1 + ReadingStreak(c, j - 1)
  ELSE 0

\* C13 as stated: at the end of every cycle the count of each city is the
\* number of immediately preceding cycles, counted back from the current one
\* without a gap, in which the city had a breaching reading.
C13_CountIsStreakOfCycles ==
  pc = "sleep" => \A c \in CitySet : consecutive_breaches[c] = CycleStreak(c, cycle)

\* C13, amended: at the end of every cycle the count of each city is the
\* number of its most recent readings that were breaching, counted back
\* without a gap over the cycles in which its fetch delivered a reading; a
\* cycle whose fetch failed neither extends nor breaks the streak.
C13_CountIsStreakOfReadings ==
  pc = "sleep" => \A c \in CitySet : consecutive_breaches[c] = ReadingStreak(c, cycle)

\* the second cycle has ended; one city breached in the first cycle and had no
\* reading in the second, another breached in both
C13_Witness ==
  /\ pc = "sleep"
  /\ cycle = 2
  /\ \E c, o \in CitySet :
       /\ BreachIn(c, 1) /\ StoredIn(c, 2) = <<>>
       /\ consecutive_breaches[c] = 1
       /\ BreachIn(o, 1) /\ BreachIn(o, 2)
       /\ consecutive_breaches[o] = 2

\* a step of the threshold check in which an SMTP session was opened and failed
FailedSendStep ==
  /\ pc = "check"
  /\ emails'.attempts = emails.attempts + 1
  /\ emails'.sent = emails.sent

\* C14: a failed delivery of an alert raises nothing to the loop: the step
\* keeps the incremented count and the alert, goes on to the end-of-day test
\* of the same city, every later city of the cycle is still fetched, and the
\* loop never ends with the delivery's exception.
C14_DeliveryFailureStaysInside ==
  /\ [](error # "SMTPException")
  /\ [](\A a \in 1..Len(cities) :
          "send_failed" \in log[cities[a]] =>
            /\ (pc = "crashed" /\ idx = a) =>
                  (error = "sqlite3.Error" /\ "summary" \in log[cities[a]])
            /\ \A b \in (a + 1)..Len(cities) :
                 Passed(b) => log[cities[b]] \cap {"fetch", "fetch_failed"} # {})
  /\ [][FailedSendStep =>
          /\ pc' = "eod"
          /\ error' = "none"
          /\ consecutive_breaches'[city_now] = consecutive_breaches[city_now] + 1
          /\ Len(alerts') = Len(alerts) + 1
          /\ alerts'[Len(alerts')].count = consecutive_breaches'[city_now]]_vars

\* the e-mails of the first city's alerts failed in both cycles: its count is
\* 2, and the second city has been fetched, stored and checked after the
\* second failure
C14_Witness ==
  /\ cycle = 2
  /\ emails.sent = 0
  /\ emails.attempts >= 2
  /\ "send_failed" \in log[cities[1]]
  /\ consecutive_breaches[cities[1]] = 2
  /\ {"fetch", "store", "check"} \subseteq log[cities[2]]
  /\ error = "none"

\* a required field of the e-mail configuration is empty or not set
SomeFieldEmptyOrUnset ==
  \E key \in EmailFields :
    \/ key \notin DOMAIN config.email_config
    \/ Falsy(key, config.email_config[key])

\* C15: when a required field of the e-mail configuration is empty or unset,
\* the alerts fired so far have opened no SMTP session and raised no error; a
\* session has been opened only when every field is non-empty.
C15_NoSendAttemptWhenIncomplete ==
  SomeFieldEmptyOrUnset => (emails.attempts = 0 /\ error = "none")

\* a step that is the work of one request handler
HandlerStep == dashboard'.requests = dashboard.requests + 1

\* C16: the request handlers only read persisted data: no handler changes the
\* breach counts, writes an observation or a summary, or makes a provider
\* fetch.
C16_HandlersOnlyRead ==
  /\ [](dashboard.fetches = 0)
  /\ [][HandlerStep =>
          UNCHANGED <<consecutive_breaches, weather_data, daily_summaries,
                      alerts, emails>>]_vars

\* C17: when the loop is stopped from outside, the city it was working on is
\* not left between store and threshold check: every observation stored in
\* the cycle has had its check.
C17_ShutdownAfterCurrentCity ==
  pc = "killed" =>
    \A c \in CitySet : "store" \in log[c] => "check" \in log[c]

\* the temperatures a summary row was computed from
TemperaturesOf(s) ==
  LET rows == get_daily_data(s.city, s.date)
  IN {rows[i].temp : i \in DOMAIN rows}

\* C18: every summary row of a non-empty list of observations holds the
\* largest temperature as maximum and the smallest as minimum, and its
\* average, the sum divided by the number, lies between the two:
\* min_temp <= avg_temp <= max_temp.
C18_MinAvgMax ==
  \A i \in DOMAIN daily_summaries :
    LET s == daily_summaries[i]
    IN /\ s.max_temp \in TemperaturesOf(s)
       /\ s.min_temp \in TemperaturesOf(s)
       /\ \A t \in TemperaturesOf(s) : BigLeq(s.min_temp, t) /\ BigLeq(t, s.max_temp)
       /\ BigLeq(s.min_temp, s.avg_temp)
       /\ BigLeq(s.avg_temp, s.max_temp)

\* the city's fetch of this cycle has been made
Handled(c) == log[c] \cap {"fetch", "fetch_failed"} # {}

\* the position of a city in the configured list
Position(c) == CHOOSE i \in 1..Len(cities) : cities[i] = c

\* the tag is put into the city's log by this step
Adds(c, tag) == tag \in log'[c] /\ tag \notin log[c]

\* C19: in a cycle the cities are worked on one at a time in the order of the
\* list; for a fetched city the steps are fetch, store, threshold check and
\* then the summary; the next cycle starts only when every city of the cycle
\* has been handled and the loop has slept for the interval.  The stored
\* observations therefore follow each other in the order of cycle and position.
C19_SequentialInListOrder ==
  /\ [](/\ \A i \in 1..Len(cities) :
             /\ i < idx => Handled(cities[i])
             /\ i > idx => log[cities[i]] = {}
        /\ \A c \in CitySet :
             /\ "store" \in log[c] => {"fetch", "parsed"} \subseteq log[c]
             /\ "check" \in log[c] => "store" \in log[c]
             /\ "summary" \in log[c] => "check" \in log[c]
        /\ \A i \in 1..(Len(weather_data) - 1) :
             \/ weather_data[i].timestamp < weather_data[i + 1].timestamp
             \/ /\ weather_data[i].timestamp = weather_data[i + 1].timestamp
                /\ Position(weather_data[i].city) < Position(weather_data[i + 1].city))
  /\ [][/\ cycle' # cycle =>
             /\ cycle' = cycle + 1
             /\ pc = "sleep" /\ pc' = "fetch" /\ idx' = 1
             /\ \A c \in CitySet : Handled(c)
             /\ clock' = clock + config.interval_minutes * SecondsPerMinute
        /\ cycle' = cycle =>
             /\ clock' = clock
             /\ idx' \in {idx, idx + 1}
             /\ \A c \in CitySet :
                  /\ log'[c] # log[c] => c = city_now
                  /\ Adds(c, "store") => (pc = "store" /\ "check" \notin log'[c])
                  /\ Adds(c, "check") => (pc = "check" /\ "summary" \notin log'[c])
                  /\ Adds(c, "summary") => pc = "eod"]_vars

\* the second cycle has ended: both cities were fetched, stored and checked
\* in both cycles, and the first cycle ended with the summaries
C19_Witness ==
  /\ cycle = 2
  /\ pc = "sleep"
  /\ \A c \in CitySet : {"fetch", "parsed", "store", "check"} \subseteq log[c]
  /\ Len(weather_data) = 2 * Len(cities)
  /\ weather_data[1].city = cities[1]
  /\ weather_data[Len(cities) + 1].city = cities[1]
  /\ Len(daily_summaries) >= Len(cities)

\* what the program holds for one city: its rows, its count, its alerts and
\* its summaries
StateOf(c) ==
  [rows |-> SelectSeq(weather_data, LAMBDA row : row.city = c),
   count |-> consecutive_breaches[c],
   alerts |-> SelectSeq(alerts, LAMBDA a : a.city = c),
   summaries |-> SelectSeq(daily_summaries, LAMBDA row : row.city = c)]

\* C20: a cycle in which the fetch of a city fails leaves the city's state as
\* it was: from the failed fetch to the end of the cycle no step appends an
\* observation of the city, changes its count, fires an alert for it or
\* writes a summary for it; and no step changes the state of a city other
\* than the one the loop is working on.
C20_FailedFetchLeavesCityUnchanged ==
  [][\A c \in CitySet :
       ("fetch_failed" \in log[c] \cup log'[c] \/ c # city_now) =>
          StateOf(c)' = StateOf(c)]_vars

\* the second cycle has ended; the fetch of a city that had breached once
\* failed in it: the city still has its one row and its count of 1, while the
\* other city has a row of each cycle
C20_Witness ==
  /\ pc = "sleep"
  /\ cycle = 2
  /\ \E c \in CitySet :
       /\ log[c] = {"fetch_failed"}
       /\ consecutive_breaches[c] = 1
       /\ RowsOf(c) = 1
       /\ \A o \in CitySet \ {c} : RowsOf(o) = 2 /\ "check" \in log[o]

\* the stored observations of a city whose time stamp lies on a calendar day
\* of the process's time zone
ObservationsOn(city, day) ==
  SelectSeq(weather_data,
            LAMBDA row : /\ row.city = city
                         /\ (row.timestamp + utc_offset) \div SecondsPerDay = day)

\* C21: when an observation triggers the summary of its calendar day, the
\* store selects for the date it is given exactly the stored observations of
\* the city on that calendar day, the triggering one among them, and the
\* summary row written for (city, day) holds their statistics; for every
\* offset of the local time zone from UTC.
C21_SummaryDateMatchesStoreDate ==
  [][(pc = "eod" /\ InLastFiveMinutes(obs.dt) /\ pc' # "crashed") =>
       LET day == (obs.dt + utc_offset) \div SecondsPerDay
           rows == ObservationsOn(city_now, day)
           temperatures == [i \in DOMAIN rows |-> rows[i].temp]
       IN /\ \E i \in DOMAIN rows : rows[i].timestamp = obs.dt
          /\ get_daily_data(city_now, last'.arg) = rows
          /\ Len(daily_summaries') = Len(daily_summaries) + 1
          /\ LET s == daily_summaries'[Len(daily_summaries')]
             IN /\ s.city = city_now
                /\ s.date = day
                /\ s.avg_temp = <<SumSeq(temperatures), Len(temperatures)>>
                /\ s.max_temp = MaxSeq(temperatures)
                /\ s.min_temp = MinSeq(temperatures)]_vars

====
